---- MODULE Spec2Model ----
(***************************************************************************)
(* Booking admission and lifecycle engine of the hall-booking backend.     *)
(*                                                                         *)
(* The shared state is the Booking collection (MongoDB, through Mongoose), *)
(* the payment links minted at the gateway and the live broadcasts sent.   *)
(* Every HTTP handler runs as an asynchronous function: it is suspended at *)
(* each `await`, and the handlers of other requests run in between.  Each  *)
(* action below is the code of one handler between two suspension points.  *)
(*                                                                         *)
(* Time is discrete: an instant is a number of slots since the epoch,      *)
(* SlotsPerDay slots make one UTC day.  The canonical day "YYYY-MM-DD" is  *)
(* written as its day number.                                              *)
(***************************************************************************)
EXTENDS Integers, Sequences, FiniteSets

(* ------------------------------ bounds -------------------------------- *)

\* bookings ever admitted (the _id values 1..MaxBookings)
MaxBookings == 2
\* bookings ever admitted in the lifecycle specification
MaxLifecycle == 1
\* calendar days 0..MaxDay are offered to the booking form
MaxDay == 0

(* --------------------------- dates and days --------------------------- *)

\* length of the UTC day [T00:00:00.000Z, T23:59:59.999Z], in slots
SlotsPerDay == 2

\* offsets (in slots) of the server's local time zone from UTC: the local
\* getters getFullYear/getMonth/getDate read the process time zone
TzOffsets == {0, 1}

\* `return null` of normalizeDateString
NullDay == -1

Days == 0..MaxDay
Instants == 0..((MaxDay + 1) * SlotsPerDay - 1)

\* req.body.date: absent, a "YYYY-MM-DD" string, or a date-time string that
\* new Date() parses to an instant
DateInputs ==
    {[k |-> "absent", v |-> 0]}
    \cup {[k |-> "canon", v |-> d] : d \in Days}
    \cup {[k |-> "stamp", v |-> t] : t \in Instants}

\* strings of the shape "YYYY-MM-DD" that name no calendar day
\* ("2025-02-30"); v is the day new Date() resolves the string to when the
\* engine's parser carries the excess over, which not every parser does
UnrealDates == {[k |-> "unreal", v |-> d] : d \in Days}

VARIABLES
    tz,        \* time-zone offset of the server process
    bookings,  \* the Booking collection
    nextId,    \* number of _id values handed out so far
    reqs,      \* the suspended handlers: one record per slot
    resp,      \* what the step just taken sent, if it ended a handler: the
               \* response, the broadcast and the call of the payment gateway
    rejected,  \* ids of the bookings a reject has deleted
    linkFailed \* ids of the bookings whose payment link the gateway refused

vars == <<tz, bookings, nextId, reqs, resp, rejected, linkFailed>>

\* local calendar day of an instant (getFullYear, getMonth, getDate)
LocalDay(t, zone) == (t + zone) \div SlotsPerDay

\* normalizeDateString(d) in a process whose time zone is `zone`
normalizeDateString(d, zone) ==
    IF d.k = "absent" THEN NullDay
    ELSE IF d.k \in {"canon", "unreal"} THEN d.v
    ELSE LocalDay(d.v, zone)

\* new Date(normalized + "T00:00:00.000Z")
startOfDay(day) == day * SlotsPerDay

\* new Date(normalized + "T23:59:59.999Z")
endOfDay(day) == day * SlotsPerDay + (SlotsPerDay - 1)

\* Mongoose casts a value of the Date path `date`: a "YYYY-MM-DD" string is
\* midnight UTC of that day, a date-time string is its instant
CastDate(d) == IF d.k \in {"canon", "unreal"} THEN d.v * SlotsPerDay ELSE d.v

(* ------------------------- the Booking schema ------------------------- *)

\* a timestamp path that was never set / that holds `new Date()`
Unset == "unset"
Stamped == "stamped"
\* paymentId before any payment
NoPayment == "none"

\* schema defaults of the status and payment paths
SchemaDefaults ==
    [status |-> "pending", isPaid |-> FALSE, paymentStatus |-> "unpaid"]

\* status and payment paths a request body may carry next to the form's
\* fields; `has` names the paths present in the body
NoExtras ==
    [has |-> {}, status |-> "pending", isPaid |-> FALSE, paymentStatus |-> "unpaid"]

PayloadExtras ==
    { NoExtras,
      [has |-> {"status", "isPaid", "paymentStatus"}, status |-> "approved",
       isPaid |-> TRUE, paymentStatus |-> "paid"] }

\* req.body of POST /api/bookings; `complete` says that every required path
\* (name, email, phone, package, guests >= 1, time) is present
Payloads ==
    [date : DateInputs, complete : {TRUE}, extra : PayloadExtras]
    \cup [date : DateInputs, complete : {FALSE}, extra : {NoExtras}]

\* new Booking(req.body): every path of the body that the schema knows is
\* copied into the document, the others take their defaults
NewBooking(id, body) ==
    [id |-> id,
     date |-> CastDate(body.date),
     status |-> IF "status" \in body.extra.has
                THEN body.extra.status ELSE SchemaDefaults.status,
     isPaid |-> IF "isPaid" \in body.extra.has
                THEN body.extra.isPaid ELSE SchemaDefaults.isPaid,
     paymentStatus |-> IF "paymentStatus" \in body.extra.has
                       THEN body.extra.paymentStatus
                       ELSE SchemaDefaults.paymentStatus,
     paymentId |-> NoPayment,
     approvedAt |-> Unset,
     rejectedAt |-> Unset,
     paidAt |-> Unset]

\* a hook that stamps nothing
PreSaveUnstamped(doc, modified) == doc

\* bookingSchema.pre("save"): `modified` is the set of paths isModified() holds for
PreSave(doc, modified) ==
    [doc EXCEPT
       !.approvedAt = IF "status" \in modified /\ doc.status = "approved"
                      THEN Stamped ELSE @,
       !.rejectedAt = IF "status" \in modified /\ doc.status = "rejected"
                      THEN Stamped ELSE @,
       !.paidAt = IF "paymentStatus" \in modified /\ doc.paymentStatus = "paid"
                  THEN Stamped ELSE @]

\* the unique indexes of the collection: {date: 1} ensured when the
\* connection opens, and {email, date, time} of the schema, which no document
\* can violate without violating the first; both compare the stored instant
DuplicateKey(store, doc) == \E b \in store : b.date = doc.date

(* ----------------------------- the store ------------------------------ *)

Ids(store) == {b.id : b \in store}

\* a route parameter or a note that is no ObjectId: the cast of the filter
\* { _id: ... } throws CastError
Malformed == -1

\* Booking.findById(id); the caller tests id \in Ids(store) first
FindById(store, id) == CHOOSE b \in store : b.id = id

\* Booking.findOne({ date: normalized }): the string is cast to a Date
ExistsByString(store, day) == \E b \in store : b.date = startOfDay(day)

\* Booking.findOne({ date: { $gte: startOfDay, $lte: endOfDay } })
ExistsByRange(store, day) ==
    \E b \in store : startOfDay(day) <= b.date /\ b.date <= endOfDay(day)

\* canonical days of the stored bookings, as GET /api/bookings reports them
BookedDays(store, zone) ==
    {normalizeDateString([k |-> "stamp", v |-> b.date], zone) : b \in store}

(* ---------------------------- the handlers ---------------------------- *)

\* Two handlers are suspended at a time.  A handler's code up to its first
\* store call runs without suspension and touches nothing shared, so it is
\* one step with that call; so is the code that follows its last store call
\* (e-mail, gateway, broadcast, response), whose outcome the step draws.
Slots == {1, 2}

\* a slot no handler is suspended in
Idle == [kind |-> "idle", pc |-> "idle"]

\* no booking in the body / no broadcast / no gateway call by the handler
\* that answered
NoBody == [id |-> 0]
NoEmit == [event |-> "none", bookingId |-> 0]
NoCall == [bookingId |-> 0, amount |-> 0]

\* what a handler has sent when it ends: res.status(code).json(...) to the
\* request `req` with its message and the booking in its body, the event it
\* gave io.emit, the request it gave razorpay.paymentLink.create and the
\* link made for that request when the body returns it
Response(kind, code, req, message, body, emit, call) ==
    [kind |-> kind, code |-> code, req |-> req, message |-> message,
     body |-> body, emit |-> emit, call |-> call,
     link |-> IF code = 200 THEN call ELSE NoCall]

\* the step taken sent no response
Quiet == Response("none", 0, 0, "none", NoBody, NoEmit, NoCall)

\* the event loop runs one continuation at a time: the next one starts when
\* the output of the last one has left the process
Turn == resp.kind = "none"

\* a new request is served in the first free slot
FreeSlot(s) ==
    /\ Turn
    /\ reqs[s] = Idle
    /\ \A r \in Slots : r < s => reqs[r] # Idle

\* the continuation of the handler in slot s that follows the store call pc
At(s, kind, pc) == Turn /\ reqs[s].kind = kind /\ reqs[s].pc = pc

\* the response, the broadcast and the gateway call of the last turn are out
Flush ==
    /\ ~Turn
    /\ resp' = Quiet
    /\ UNCHANGED <<tz, bookings, nextId, reqs, rejected, linkFailed>>

Init ==
    /\ tz \in TzOffsets
    /\ bookings = {}
    /\ nextId = 0
    /\ reqs = [s \in Slots |-> Idle]
    /\ resp = Quiet
    /\ rejected = {}
    /\ linkFailed = {}

(* POST /api/bookings *)

\* whether new Date() resolves the date string of the request: a string
\* that names no calendar day is resolved by some parsers and is an
\* Invalid Date for the others
Resolves(d) == IF d.k = "unreal" THEN BOOLEAN ELSE {TRUE}

\* lines 171-186: normalise the date, answer 400 when it is null, else run
\* the first pre-check query, existingByString, whose cast of an Invalid
\* Date throws into the catch of lines 226-234
SubmitStart(s, bodies, cap) ==
    /\ FreeSlot(s)
    /\ nextId < cap
    /\ \E body \in bodies : \E resolved \in Resolves(body.date) :
         LET normalized == normalizeDateString(body.date, tz) IN
         IF normalized = NullDay
         THEN /\ resp' = Response("submit", 400, normalized, "invalid date", NoBody, NoEmit, NoCall)
              /\ UNCHANGED reqs
         ELSE IF ~resolved
         THEN /\ resp' = Response("submit", 500, normalized, "cast error", NoBody, NoEmit, NoCall)
              /\ UNCHANGED reqs
         ELSE /\ reqs' = [reqs EXCEPT ![s] =
                     [kind |-> "submit", pc |-> "findRange", arg |-> body,
                      normalized |-> normalized,
                      byString |-> ExistsByString(bookings, normalized)]]
              /\ resp' = Quiet
    /\ UNCHANGED <<tz, bookings, nextId, rejected, linkFailed>>

\* lines 189-195: existingByRange, then 409 when either query matched
SubmitFindRange(s) ==
    /\ At(s, "submit", "findRange")
    /\ IF reqs[s].byString \/ ExistsByRange(bookings, reqs[s].normalized)
       THEN /\ resp' = Response("submit", 409, reqs[s].normalized, "already booked", NoBody, NoEmit, NoCall)
            /\ reqs' = [reqs EXCEPT ![s] = Idle]
       ELSE /\ reqs' = [reqs EXCEPT ![s] =
                   [kind |-> "submit", pc |-> "save", arg |-> reqs[s].arg,
                    normalized |-> reqs[s].normalized]]
            /\ resp' = Quiet
    /\ UNCHANGED <<tz, bookings, nextId, rejected, linkFailed>>

\* the document booking.save() inserts: the pre-save hook has run on it
SubmitDoc(id, body) == PreSave(NewBooking(id, body), body.extra.has)

\* lines 198-235: booking.save(), whose validation error is a 500 and whose
\* duplicate key (code 11000) is a 409; then the e-mail to the administrator,
\* whose failure is caught and logged, and the 201
SubmitSave(s) ==
    /\ At(s, "submit", "save")
    /\ reqs' = [reqs EXCEPT ![s] = Idle]
    /\ LET body == reqs[s].arg
           doc == SubmitDoc(nextId + 1, body) IN
       IF ~body.complete
       THEN /\ resp' = Response("submit", 500, reqs[s].normalized, "validation", NoBody, NoEmit, NoCall)
            /\ UNCHANGED <<bookings, nextId>>
       ELSE IF DuplicateKey(bookings, doc)
       THEN /\ resp' = Response("submit", 409, reqs[s].normalized, "duplicate key", NoBody, NoEmit, NoCall)
            /\ UNCHANGED <<bookings, nextId>>
       ELSE /\ bookings' = bookings \cup {doc}
            /\ nextId' = nextId + 1
            /\ \E mailOk \in BOOLEAN :
                 resp' = Response("submit", 201, reqs[s].normalized, "created", doc, NoEmit, NoCall)
    /\ UNCHANGED <<tz, rejected, linkFailed>>

(* POST /api/admin/bookings/:id/approve *)

\* req.body.amount: missing, a text that is no number, or a number
AmountInputs ==
    {[k |-> "missing", v |-> 0], [k |-> "text", v |-> 0]}
    \cup {[k |-> "num", v |-> n] : n \in {-1, 0, 5}}

\* line 273: !amount || isNaN(amount) || Number(amount) <= 0
InvalidAmount(a) ==
    \/ a.k = "missing" \/ (a.k = "num" /\ a.v = 0)
    \/ a.k = "text"
    \/ (a.k = "num" /\ a.v <= 0)

\* lines 284-302: the request given to razorpay.paymentLink.create
PaymentLinkRequest(doc, amount) ==
    [bookingId |-> doc.id, amount |-> amount.v * 100]

\* the paths of a loaded document that approve and the pre-save hook read
\* or write
Loaded(doc) ==
    [id |-> doc.id, status |-> doc.status, paymentStatus |-> doc.paymentStatus,
     approvedAt |-> doc.approvedAt, rejectedAt |-> doc.rejectedAt,
     paidAt |-> doc.paidAt]

\* the response of approve, with the amount its request carried
ApproveResponse(code, id, amount, message, body, call) ==
    [kind |-> "approve", code |-> code, req |-> id, amount |-> amount,
     message |-> message, body |-> body, emit |-> NoEmit, call |-> call,
     link |-> IF code = 200 THEN call ELSE NoCall]

\* lines 269-278: the checks of the input, then Booking.findById; the catch
\* of lines 322-325 when the id is no ObjectId
ApproveStart(s, ids) ==
    /\ FreeSlot(s)
    /\ \E id \in ids \cup {Malformed}, amount \in AmountInputs :
         IF InvalidAmount(amount)
         THEN /\ resp' = ApproveResponse(400, id, amount, "amount", NoBody, NoCall)
              /\ UNCHANGED reqs
         ELSE IF id = Malformed
         THEN /\ resp' = ApproveResponse(500, id, amount, "cast error", NoBody, NoCall)
              /\ UNCHANGED reqs
         ELSE IF id \notin Ids(bookings)
         THEN /\ resp' = ApproveResponse(404, id, amount, "not found", NoBody, NoCall)
              /\ UNCHANGED reqs
         ELSE /\ reqs' = [reqs EXCEPT ![s] =
                     [kind |-> "approve", pc |-> "save", amount |-> amount,
                      booking |-> Loaded(FindById(bookings, id))]]
              /\ resp' = Quiet
    /\ UNCHANGED <<tz, bookings, nextId, rejected, linkFailed>>

\* booking.status = "approved": the paths isModified() then holds for
ApproveModified(doc) == IF doc.status = "approved" THEN {} ELSE {"status"}

\* the handler's document when save() has run the pre-save hook on it
ApproveDoc(doc) ==
    PreSave([doc EXCEPT !.status = "approved"], ApproveModified(doc))

\* a save() that writes nothing
SaveDiscarded(store, doc, modified) == store

\* save() of a loaded document writes its modified paths to the stored
\* document of that _id; with modified paths it fails when there is none,
\* with none it sends nothing to the store
SaveModified(store, doc, modified) ==
    {IF b.id = doc.id /\ "status" \in modified
     THEN [b EXCEPT !.status = doc.status, !.approvedAt = doc.approvedAt,
                    !.rejectedAt = doc.rejectedAt]
     ELSE b : b \in store}

\* lines 280-281, and the catch of lines 322-325 when save() finds no document
ApproveSave(s) ==
    /\ At(s, "approve", "save")
    /\ LET doc == ApproveDoc(reqs[s].booking) IN
       IF ApproveModified(reqs[s].booking) # {} /\ doc.id \notin Ids(bookings)
       THEN /\ resp' = ApproveResponse(500, doc.id, reqs[s].amount, "save", NoBody, NoCall)
            /\ reqs' = [reqs EXCEPT ![s] = Idle]
            /\ UNCHANGED bookings
       ELSE /\ bookings' = SaveModified(bookings, doc, ApproveModified(reqs[s].booking))
            /\ reqs' = [reqs EXCEPT ![s].pc = "gateway", ![s].booking = doc]
            /\ resp' = Quiet
    /\ UNCHANGED <<tz, nextId, rejected, linkFailed>>

\* lines 284-325: the gateway call, the e-mail to the payer and the response;
\* a failure of either is the 500 of the catch
ApproveGateway(s) ==
    /\ At(s, "approve", "gateway")
    /\ reqs' = [reqs EXCEPT ![s] = Idle]
    /\ \E outcome \in {"gateway error", "mail error", "sent"} :
         /\ resp' = ApproveResponse(IF outcome = "sent" THEN 200 ELSE 500,
                                    reqs[s].booking.id, reqs[s].amount, outcome,
                                    IF outcome = "sent" THEN reqs[s].booking ELSE NoBody,
                                    PaymentLinkRequest(reqs[s].booking, reqs[s].amount))
         /\ linkFailed' = IF outcome = "gateway error"
                          THEN linkFailed \cup {reqs[s].booking.id} ELSE linkFailed
    /\ UNCHANGED <<tz, bookings, nextId, rejected>>

(* POST /api/admin/bookings/:id/reject *)

\* lines 375-376: Booking.findById; the catch of lines 390-393 when the id
\* is no ObjectId
RejectStart(s, ids) ==
    /\ FreeSlot(s)
    /\ \E id \in ids \cup {Malformed} :
         IF id = Malformed
         THEN /\ resp' = Response("reject", 500, id, "cast error", NoBody, NoEmit, NoCall)
              /\ UNCHANGED reqs
         ELSE IF id \notin Ids(bookings)
         THEN /\ resp' = Response("reject", 404, id, "not found", NoBody, NoEmit, NoCall)
              /\ UNCHANGED reqs
         ELSE /\ reqs' = [reqs EXCEPT ![s] =
                     [kind |-> "reject", pc |-> "delete",
                      booking |-> [id |-> FindById(bookings, id).id]]]
              /\ resp' = Quiet
    /\ UNCHANGED <<tz, bookings, nextId, rejected, linkFailed>>

\* booking.deleteOne(): removes the stored document of that _id, if any
DeleteOne(store, doc) == {b \in store : b.id # doc.id}

\* lines 378-393: the deletion, the e-mail to the requester and the response
RejectDelete(s) ==
    /\ At(s, "reject", "delete")
    /\ reqs' = [reqs EXCEPT ![s] = Idle]
    /\ bookings' = DeleteOne(bookings, reqs[s].booking)
    /\ rejected' = rejected \cup {reqs[s].booking.id}
    /\ \E mailOk \in BOOLEAN :
         resp' = IF mailOk
                 THEN Response("reject", 200, reqs[s].booking.id, "rejected", NoBody, NoEmit, NoCall)
                 ELSE Response("reject", 500, reqs[s].booking.id, "mail error", NoBody, NoEmit, NoCall)
    /\ UNCHANGED <<tz, nextId, linkFailed>>

(* POST /api/razorpay/webhook *)

\* process.env.RAZORPAY_WEBHOOK_SECRET
WebhookSecret == "secret"

\* payment.notes carries no bookingId
Undefined == 0

\* The body the provider posts: the JSON text is either in the form
\* JSON.stringify writes or in another form of the same value (white space,
\* escapes); the value holds the event and the payment entity.
WebhookBodies(ids) ==
    [form : {"compact", "spaced"},
     event : {"payment.captured", "payment.failed"},
     bookingId : {Undefined, Malformed} \cup ids,
     paymentId : {"pay_A"}]

\* the bytes of the request body
RawText(b) == <<b.form, b.event, b.bookingId, b.paymentId>>

\* express.json(): req.body is the value the text denotes
JsonParse(text) ==
    [event |-> text[2], bookingId |-> text[3], paymentId |-> text[4]]

\* JSON.stringify(req.body)
JsonStringify(v) == <<"compact", v.event, v.bookingId, v.paymentId>>

\* crypto.createHmac("sha256", key).update(text).digest("hex")
Hmac(key, text) == <<key, text>>

\* values of the x-razorpay-signature header sent with the body b: none
\* (<<>>), or the digest of the text or of another text of the same value
Signatures(b) ==
    {<<>>} \cup {Hmac(WebhookSecret, RawText([b EXCEPT !.form = f])) :
                    f \in {"compact", "spaced"}}

\* lines 331-340: the signature the handler expects
ExpectedSignature(text) == Hmac(WebhookSecret, JsonStringify(JsonParse(text)))

\* Documents the filter { _id: bookingId } of findOneAndUpdate selects.  A
\* condition whose value is undefined is dropped or sent as null, depending
\* on the Mongoose and driver versions: the filter then selects any one
\* document, or none.  0 stands for no document.
Selected(store, bookingId) ==
    IF bookingId = Undefined THEN Ids(store) \cup {0}
    ELSE IF bookingId \in Ids(store) THEN {bookingId}
    ELSE {0}

\* an update that replaces the document: the paths it does not name go
\* back to their defaults
MarkPaidReplacing(store, id, paymentId) ==
    {IF b.id = id
     THEN [b EXCEPT !.isPaid = TRUE, !.paymentId = paymentId,
                    !.status = SchemaDefaults.status, !.approvedAt = Unset]
     ELSE b : b \in store}

\* line 352: the update { isPaid: true, paymentId: payment.id } applied to
\* the document `id`; an update query runs no save hook
MarkPaid(store, id, paymentId) ==
    {IF b.id = id THEN [b EXCEPT !.isPaid = TRUE, !.paymentId = paymentId] ELSE b
     : b \in store}

\* lines 329-370: the whole handler; its one store call is findOneAndUpdate,
\* whose CastError the catch of lines 366-369 answers
Webhook(ids) ==
    /\ Turn
    /\ \E b \in WebhookBodies(ids) : \E signature \in Signatures(b) :
      LET text == RawText(b)
          body == JsonParse(text)
          req == [form |-> b.form, event |-> b.event, bookingId |-> b.bookingId,
                  paymentId |-> b.paymentId,
                  signed |-> (signature = Hmac(WebhookSecret, text))] IN
      /\ IF ExpectedSignature(text) # signature
         THEN /\ resp' = Response("webhook", 400, req, "invalid signature", NoBody, NoEmit, NoCall)
              /\ UNCHANGED bookings
         ELSE IF body.event = "payment.captured" /\ body.bookingId = Malformed
         THEN /\ resp' = Response("webhook", 500, req, "cast error", NoBody, NoEmit, NoCall)
              /\ UNCHANGED bookings
         ELSE IF body.event = "payment.captured"
         THEN \E id \in Selected(bookings, body.bookingId) :
                /\ bookings' = MarkPaid(bookings, id, body.paymentId)
                /\ resp' = Response("webhook", 200, req, "ok", NoBody,
                                    IF id # 0
                                    THEN [event |-> "paymentUpdate", bookingId |-> id]
                                    ELSE NoEmit, NoCall)
         ELSE /\ resp' = Response("webhook", 200, req, "ok", NoBody, NoEmit, NoCall)
              /\ UNCHANGED bookings
      /\ UNCHANGED <<tz, nextId, reqs, rejected, linkFailed>>

(* GET /api/admin/bookings: the retention sweep and the list *)

\* instants new Date() can give the sweep: the days offered and the day after
ClockInstants == 0..((MaxDay + 2) * SlotsPerDay - 1)

\* line 244: normalizeDateString(today), today a Date object
TodayNormalized(now, zone) == normalizeDateString([k |-> "stamp", v |-> now], zone)

\* a filter that compares the canonical day of each document
PastByCanonicalDay(store, now, zone) ==
    {b \in store :
       normalizeDateString([k |-> "stamp", v |-> b.date], zone)
         < TodayNormalized(now, zone)}

\* lines 247-249: the documents deleteMany({ date: { $lt: cutoff } }) selects,
\* cutoff = new Date(todayNormalized + "T00:00:00.000Z")
PastByRange(store, now, zone) ==
    {b \in store : b.date < startOfDay(TodayNormalized(now, zone))}

\* lines 238-255: new Date(), deleteMany, and the broadcast when
\* deletedCount > 0
SweepDelete(s) ==
    /\ FreeSlot(s)
    /\ \E now \in ClockInstants :
         LET past == PastByRange(bookings, now, tz) IN
         /\ bookings' = bookings \ past
         /\ reqs' = [reqs EXCEPT ![s] =
                [kind |-> "sweep", pc |-> "find", now |-> now,
                 emit |-> IF Cardinality(past) > 0
                          THEN [event |-> "pastBookingsDeleted", bookingId |-> 0]
                          ELSE NoEmit]]
    /\ resp' = Quiet
    /\ UNCHANGED <<tz, nextId, rejected, linkFailed>>

\* lines 258-259: Booking.find() and res.json(bookings)
SweepFind(s) ==
    /\ At(s, "sweep", "find")
    /\ reqs' = [reqs EXCEPT ![s] = Idle]
    /\ resp' = Response("sweep", 200, reqs[s].now, "list",
                        [id |-> 0, list |-> bookings], reqs[s].emit, NoCall)
    /\ UNCHANGED <<tz, bookings, nextId, rejected, linkFailed>>

\* the ids requests name: those of the bookings that can be admitted
BookingIds == 1..MaxBookings

Next ==
    \/ \E s \in Slots :
        \/ SubmitStart(s, Payloads, MaxBookings)
        \/ SubmitFindRange(s)
        \/ SubmitSave(s)
        \/ ApproveStart(s, BookingIds)
        \/ ApproveSave(s)
        \/ ApproveGateway(s)
        \/ RejectStart(s, BookingIds)
        \/ RejectDelete(s)
    \/ Webhook(BookingIds)
    \/ Flush

Spec == Init /\ [][Next]_vars

(* The lifecycle of the bookings the form admits: it sends every required  *)
(* field, and its date field sends "YYYY-MM-DD".                           *)

FormPayloads == {p \in Payloads : p.date.k = "canon" /\ p.complete}

LifecycleIds == 1..MaxLifecycle

NextLifecycle ==
    \/ \E s \in Slots :
        \/ SubmitStart(s, FormPayloads, MaxLifecycle)
        \/ SubmitFindRange(s)
        \/ SubmitSave(s)
        \/ ApproveStart(s, LifecycleIds)
        \/ ApproveSave(s)
        \/ ApproveGateway(s)
        \/ RejectStart(s, LifecycleIds)
        \/ RejectDelete(s)
    \/ Webhook(LifecycleIds)
    \/ Flush

\* no handler of the lifecycle reads a date: the server runs in UTC
InitLifecycle == Init /\ tz = 0

(* The same handlers when requests arrive one after the other: a request  *)
(* arrives when no handler is suspended.                                   *)

NoneSuspended == \A s \in Slots : reqs[s] = Idle

NextSequential ==
    \/ \E s \in Slots :
        \/ NoneSuspended /\ SubmitStart(s, Payloads, MaxBookings)
        \/ SubmitFindRange(s)
        \/ SubmitSave(s)
        \/ NoneSuspended /\ ApproveStart(s, BookingIds)
        \/ ApproveSave(s)
        \/ ApproveGateway(s)
        \/ NoneSuspended /\ RejectStart(s, BookingIds)
        \/ RejectDelete(s)
    \/ NoneSuspended /\ Webhook(BookingIds)
    \/ Flush

SpecSequential == Init /\ [][NextSequential]_vars

SpecLifecycle == InitLifecycle /\ [][NextLifecycle]_vars

(* The steps that keep or change a stored booking: submission, approval,  *)
(* payment confirmation and the sweep, interleaved                         *)
NextMonotone ==
    \/ \E s \in Slots :
        \/ SubmitStart(s, FormPayloads, MaxLifecycle)
        \/ SubmitFindRange(s)
        \/ SubmitSave(s)
        \/ ApproveStart(s, LifecycleIds)
        \/ ApproveSave(s)
        \/ ApproveGateway(s)
        \/ SweepDelete(s)
        \/ SweepFind(s)
    \/ Webhook(LifecycleIds)
    \/ Flush

SpecMonotone == InitLifecycle /\ [][NextMonotone]_vars

(* Admission and retention: the submissions, with every date a request   *)
(* can carry, and the sweep.                                               *)

AnyDatePayloads ==
    Payloads \cup [date : UnrealDates, complete : {TRUE}, extra : {NoExtras}]

NextSweep ==
    \/ \E s \in Slots :
        \/ SubmitStart(s, AnyDatePayloads, MaxBookings)
        \/ SubmitFindRange(s)
        \/ SubmitSave(s)
        \/ SweepDelete(s)
        \/ SweepFind(s)
    \/ Flush

SpecSweep == Init /\ [][NextSweep]_vars

(* ------------------------------ properties ----------------------------- *)

\* the canonical day of a stored booking: what normalizeDateString gives for
\* its date, as GET /api/bookings reports it
CanonicalDay(b) == normalizeDateString([k |-> "stamp", v |-> b.date], tz)

\* the stored bookings on canonical day `day`
BookingsOn(store, day) == {b \in store : CanonicalDay(b) = day}

\* C1: of the submissions that target one canonical day at most one creates
\* a booking, whatever the interleaving of their reads and inserts: no
\* store state holds two bookings with the same canonical date.
C1_OneBookingPerDay ==
    \A a, b \in bookings : a.id # b.id => CanonicalDay(a) # CanonicalDay(b)

\* C2: when requests arrive one after the other, a submission for canonical
\* day D is answered 409 and stores nothing if a booking on D is held, and
\* is answered 201 and leaves exactly one booking on D if none is held (the
\* payload being otherwise valid).
C2_SequentialAdmission ==
    [][(resp'.kind = "submit" /\ resp'.code \in {201, 409}) =>
         LET D == resp'.req IN
         IF BookingsOn(bookings, D) # {}
         THEN resp'.code = 409 /\ bookings' = bookings
         ELSE resp'.code = 201 /\ Cardinality(BookingsOn(bookings', D)) = 1]_vars

\* C10: a booking POST /api/bookings creates is stored pending, not paid,
\* unpaid, with no approved-at, rejected-at or paid-at, whatever fields the
\* payload carries.
C10_CreatedInInitialState ==
    (resp.kind = "submit" /\ resp.code = 201) =>
        /\ resp.body \in bookings
        /\ resp.body.status = "pending"
        /\ resp.body.isPaid = FALSE
        /\ resp.body.paymentStatus = "unpaid"
        /\ resp.body.approvedAt = Unset
        /\ resp.body.rejectedAt = Unset
        /\ resp.body.paidAt = Unset

\* C3: a booking reject has deleted never exists again, whatever approve or
\* webhook was in flight: no stored booking has its id, no handler loads
\* it, and an approve or reject that arrives for it is answered 404 (an
\* approve without a valid amount 400); a reject of an id that is not
\* stored is answered 404 and changes nothing.
C3_RejectIsPermanent ==
    [][/\ rejected' \cap Ids(bookings') = {}
       /\ \A s \in Slots :
            (reqs[s] = Idle /\ reqs'[s] # Idle
               /\ reqs'[s].kind \in {"approve", "reject"})
            => reqs'[s].booking.id \in Ids(bookings) \ rejected
       /\ (reqs' = reqs /\ resp'.kind \in {"approve", "reject"}
              /\ resp'.req \in rejected)
            => resp'.code = IF resp'.message = "amount" THEN 400 ELSE 404
       /\ (reqs' = reqs /\ resp'.kind = "reject"
              /\ resp'.req \notin Ids(bookings))
            => resp'.code = 404 /\ bookings' = bookings]_vars

\* the stored booking of a response's request has been approved and stamped
StoredApproved(id) ==
    \A b \in bookings : b.id = id => b.status = "approved" /\ b.approvedAt = Stamped

\* C4: a payment.captured webhook with a valid signature that names a stored
\* booking leaves it paid, with the provider's payment id, paid-at stamped
\* and the payment sub-state paid, whatever its admin status.
C4_PaymentRecorded ==
    (resp.kind = "webhook" /\ resp.req.event = "payment.captured"
       /\ resp.req.signed /\ resp.req.bookingId \in Ids(bookings))
    => LET b == FindById(bookings, resp.req.bookingId) IN
       /\ b.isPaid
       /\ b.paymentId = resp.req.paymentId
       /\ b.paidAt = Stamped
       /\ b.paymentStatus = "paid"

\* C5: a payment.captured webhook with a valid signature whose notes carry
\* no booking id, or the id of no stored booking, is answered 200 and
\* changes no booking.
C5_UnmatchedIsNoOp ==
    [][(resp'.kind = "webhook" /\ resp'.req.event = "payment.captured"
          /\ resp'.req.signed /\ resp'.req.bookingId \notin Ids(bookings))
       => resp'.code = 200 /\ bookings' = bookings]_vars

\* C6: a valid payment.captured event delivered again for a booking that
\* already records its payment leaves the booking as the first delivery
\* left it and broadcasts nothing.
C6_IdempotentConfirmation ==
    [][(/\ resp'.kind = "webhook" /\ resp'.req.event = "payment.captured"
        /\ resp'.req.signed /\ resp'.req.bookingId \in Ids(bookings)
        /\ LET b == FindById(bookings, resp'.req.bookingId) IN
             b.isPaid /\ b.paymentId = resp'.req.paymentId)
       => bookings' = bookings /\ resp'.emit = NoEmit]_vars

\* C7: a webhook request whose signature header is not the HMAC of its body
\* under the shared secret is answered 400 and changes no booking.
C7_InvalidSignatureRejected ==
    [][(resp'.kind = "webhook" /\ ~resp'.req.signed)
       => resp'.code = 400 /\ bookings' = bookings]_vars

\* C8: approve of a stored booking with a positive amount stores status
\* approved with approved-at stamped and asks the gateway for a link whose
\* notes carry that booking's id; the 200 response holds the approved
\* booking and that link.
C8_ApproveApproves ==
    /\ \A s \in Slots :
         (reqs[s].kind = "approve" /\ reqs[s].pc = "gateway")
         => /\ reqs[s].booking.status = "approved"
            /\ reqs[s].booking.approvedAt = Stamped
            /\ StoredApproved(reqs[s].booking.id)
    /\ (resp.kind = "approve" /\ resp.call # NoCall)
         => /\ resp.call.bookingId = resp.req
            /\ StoredApproved(resp.req)
    /\ (resp.kind = "approve" /\ resp.code = 200)
         => /\ resp.body.id = resp.req
            /\ resp.body.status = "approved"
            /\ resp.body.approvedAt = Stamped
            /\ resp.link = resp.call
            /\ resp.link.bookingId = resp.req
            /\ resp.link.amount > 0

\* an approve of a stored booking has been answered 200 with the booking,
\* approved in the store, and the link made for it
C8_Witness ==
    /\ resp.kind = "approve"
    /\ resp.code = 200
    /\ resp.req \in Ids(bookings)
    /\ FindById(bookings, resp.req).status = "approved"
    /\ resp.link.bookingId = resp.req

\* C9: when the gateway call of an approve fails the caller is answered 500
\* and the booking stays approved from then on; a later approve of it can
\* be answered 200 with a link.
C9_GatewayFailureKeepsApproval ==
    /\ (resp.kind = "approve" /\ resp.message = "gateway error")
         => resp.code = 500 /\ resp.req \in linkFailed
    /\ \A id \in linkFailed : StoredApproved(id)

\* a later approve of a booking whose gateway call had failed is answered
\* 200 with a link, the booking still stored
C9_Witness ==
    /\ resp.kind = "approve"
    /\ resp.code = 200
    /\ resp.req \in linkFailed
    /\ resp.req \in Ids(bookings)
    /\ resp.link.bookingId = resp.req

\* C11: the sweep deletes exactly the bookings whose canonical day is
\* earlier than today's canonical day, broadcasts pastBookingsDeleted once
\* if it deleted any and not otherwise, and returns the bookings that
\* remain.
C11_SweepDeletesPastOnly ==
    [][/\ \A s \in Slots :
            (reqs[s] = Idle /\ reqs'[s] # Idle /\ reqs'[s].kind = "sweep")
            => /\ bookings' = bookings \ PastByCanonicalDay(bookings, reqs'[s].now, tz)
               /\ (reqs'[s].emit # NoEmit) <=> (bookings' # bookings)
       /\ resp'.kind = "sweep" => resp'.body.list = bookings']_vars

\* C12: a failure of the notification step of a submission, an approve or
\* a reject is not surfaced: the submission that stored its booking is
\* answered 201, the reject that deleted its booking 200, and the approve
\* whose payment link the gateway made 200.
C12_NotificationFailureHidden ==
    [][/\ (resp'.kind = "submit" /\ bookings' # bookings) => resp'.code = 201
       /\ (resp'.kind = "reject" /\ bookings' # bookings) => resp'.code = 200
       /\ (resp'.kind = "approve" /\ resp'.call # NoCall
              /\ resp'.message # "gateway error") => resp'.code = 200]_vars

\* C13: every transition that changes a booking broadcasts an event: the
\* approve and the reject answered 200, and the payment confirmation of a
\* stored booking, have emitted one.
C13_TransitionsBroadcast ==
    (\/ resp.kind \in {"approve", "reject"} /\ resp.code = 200
     \/ /\ resp.kind = "webhook" /\ resp.code = 200
        /\ resp.req.event = "payment.captured"
        /\ resp.req.bookingId \in Ids(bookings))
    => resp.emit.event # "none"

\* C14: an approve whose preconditions fail changes no booking and calls no
\* gateway: it is answered 400 when the amount is missing, no number, zero
\* or negative (also for a stored booking), and 404 when the id names no
\* stored booking; an approve that goes on has a valid amount and a stored
\* booking.
C14_ApprovePreconditions ==
    [][/\ (resp'.kind = "approve" /\ reqs' = reqs)
            => /\ bookings' = bookings
               /\ resp'.call = NoCall
               /\ IF InvalidAmount(resp'.amount)
                  THEN resp'.code = 400
                  ELSE resp'.req \notin Ids(bookings) /\ resp'.code = 404
       /\ \A s \in Slots :
            (reqs[s] = Idle /\ reqs'[s] # Idle /\ reqs'[s].kind = "approve")
            => /\ ~InvalidAmount(reqs'[s].amount)
               /\ reqs'[s].booking.id \in Ids(bookings)]_vars

\* C15: a submission whose date is absent, does not parse, or has the
\* canonical shape but names no calendar day is answered 400, runs no
\* store query and creates no booking: the submissions that go on to the
\* store carry a date that is a real day or instant, the others are
\* answered 400 at once.
C15_InvalidDateRejected ==
    [][/\ \A s \in Slots :
            (reqs[s] = Idle /\ reqs'[s] # Idle /\ reqs'[s].kind = "submit")
            => reqs'[s].arg.date.k \in {"canon", "stamp"}
       /\ (resp'.kind = "submit" /\ reqs' = reqs)
            => resp'.code = 400 /\ bookings' = bookings]_vars

\* C16: while a booking is stored its lifecycle fields only move forward:
\* no step takes its status from approved back to pending, its isPaid from
\* true to false, or clears its approved-at or paid-at.
C16_LifecycleMonotone ==
    [][\A b \in bookings : \A c \in bookings' :
         c.id = b.id =>
           /\ b.status = "approved" => c.status # "pending"
           /\ b.isPaid => c.isPaid
           /\ b.approvedAt = Stamped => c.approvedAt = Stamped
           /\ b.paidAt = Stamped => c.paidAt = Stamped]_vars

\* an approval has been answered 200 for a booking whose payment a webhook
\* has confirmed: the stored booking is approved, stamped and still paid
C16_Witness ==
    /\ resp.kind = "approve"
    /\ resp.code = 200
    /\ \E b \in bookings :
         /\ b.id = resp.req
         /\ b.status = "approved"
         /\ b.approvedAt = Stamped
         /\ b.isPaid
         /\ b.paymentId # NoPayment

\* C17: in every reachable state the payment fields of every stored booking
\* agree: isPaid is true exactly when paymentStatus is "paid", and a booking
\* with isPaid true has its paid-at and its provider payment id set.
C17_PaymentFieldsConsistent ==
    \A b \in bookings :
        /\ b.isPaid <=> b.paymentStatus = "paid"
        /\ b.isPaid => (b.paidAt = Stamped /\ b.paymentId # NoPayment)

====
